---- MODULE Spec2Model ----
(***************************************************************************)
(* go-expandenv: expansion of ${NAME[:format][:-fallback]} placeholders in *)
(* a decoded value tree.  Strings are sequences of one-character strings,  *)
(* so that the three regular expressions of Expand/expandValue, the text   *)
(* conversions of strconv and the formatting of fmt are modelled character *)
(* by character.                                                           *)
(***************************************************************************)
EXTENDS Integers, Sequences, FiniteSets, TLC

(***************************************************************************)
(* Bounds of the model.                                                    *)
(***************************************************************************)
MaxElems == 2
MaxTokens == 2
MaxEnvWrites == 1

(***************************************************************************)
(* Text constants of the source.                                           *)
(***************************************************************************)
TxtEnvVariable == <<"e","n","v","i","r","o","n","m","e","n","t"," ","v","a","r","i","a","b","l","e"," ">>
TxtVariable == <<"v","a","r","i","a","b","l","e"," ">>
TxtIsMissing == <<" ","i","s"," ","m","i","s","s","i","n","g">>
TxtCouldNotParse == <<"c","o","u","l","d"," ","n","o","t"," ","p","a","r","s","e"," ">>
TxtNotNumber == <<" ","i","s"," ","n","o","t"," ","a"," ","v","a","l","i","d"," ","n","u","m","b","e","r">>
TxtNotBoolean == <<" ","i","s"," ","n","o","t"," ","a"," ","v","a","l","i","d"," ","b","o","o","l","e","a","n">>
TxtFormat == <<"f","o","r","m","a","t"," ">>
TxtNotSupported == <<" ","i","s"," ","n","o","t"," ","s","u","p","p","o","r","t","e","d">>
TxtUnknown == <<"u","n","k","n","o","w","n">>
TxtBangMissing == <<"(","M","I","S","S","I","N","G",")">>
TxtNoVerb == <<"%","!","(","N","O","V","E","R","B",")">>
TxtNumber == <<"n","u","m","b","e","r">>
TxtBoolean == <<"b","o","o","l","e","a","n">>
TxtString == <<"s","t","r","i","n","g">>
TxtTrue == <<"t","r","u","e">>
TxtFalse == <<"f","a","l","s","e">>
TxtYes == <<"y","e","s">>
TxtNo == <<"n","o">>
TxtSep == <<",", " ">>

(***************************************************************************)
(* The value tree (interface{}): a tagged value, with one field name per   *)
(* dynamic type.                                                           *)
(***************************************************************************)
NilV == [t |-> "nil"]
StrV(s) == [t |-> "str", s |-> s]
IntV(n) == [t |-> "int", n |-> n]
FloatV(f) == [t |-> "float", f |-> f]
BoolV(b) == [t |-> "bool", b |-> b]
SeqV(e) == [t |-> "seq", e |-> e]
MapV(m) == [t |-> "map", m |-> m]

(* error values: nil, or an error with a message *)
NoErr == [nil |-> TRUE, msg |-> <<>>]
Err(m) == [nil |-> FALSE, msg |-> m]

(* *string values: nil, or a pointer to a string *)
NilPtr == [nil |-> TRUE, s |-> <<>>]
Ptr(s) == [nil |-> FALSE, s |-> s]

(***************************************************************************)
(* strconv.Atoi, strconv.ParseFloat and the %v verb of fmt.                *)
(***************************************************************************)
Digits == <<"0","1","2","3","4","5","6","7","8","9">>

IsDigit(c) == \E d \in 1..10 : Digits[d] = c

DigitVal(c) == (CHOOSE d \in 1..10 : Digits[d] = c) - 1

RECURSIVE DigitsVal(_)
DigitsVal(s) ==
  IF s = <<>> THEN 0
  ELSE DigitsVal(SubSeq(s, 1, Len(s) - 1)) * 10 + DigitVal(s[Len(s)])

RECURSIVE NatStr(_)
NatStr(n) ==
  IF n < 10 THEN <<Digits[n + 1]>>
  ELSE NatStr(n \div 10) \o <<Digits[(n % 10) + 1]>>

(* strconv.Atoi: an optional sign, then one or more decimal digits.  The   *)
(* texts of the model are shorter than ten digits: no range error.         *)
Atoi(s) ==
  LET signed == s # <<>> /\ s[1] \in {"+", "-"}
      body == IF signed THEN Tail(s) ELSE s
      ok == body # <<>> /\ \A i \in 1..Len(body) : IsDigit(body[i])
  IN  [ok |-> ok,
       n |-> IF ~ok THEN 0
             ELSE IF signed /\ s[1] = "-" THEN 0 - DigitsVal(body)
             ELSE DigitsVal(body)]

RECURSIVE StripZeros(_, _)
StripZeros(mant, scale) ==
  IF scale > 0 /\ mant % 10 = 0 THEN StripZeros(mant \div 10, scale - 1)
  ELSE [mant |-> mant, scale |-> scale]

(* strconv.ParseFloat(s, 64) on decimal literals without exponent: an      *)
(* optional sign, digits with at most one point, at least one digit.  The  *)
(* value is neg * mant / 10^scale.                                         *)
ParseFloat(s) ==
  LET signed == s # <<>> /\ s[1] \in {"+", "-"}
      body == IF signed THEN Tail(s) ELSE s
      points == {i \in 1..Len(body) : body[i] = "."}
      ok == /\ Cardinality(points) <= 1
            /\ \A i \in 1..Len(body) : IsDigit(body[i]) \/ body[i] = "."
            /\ \E i \in 1..Len(body) : IsDigit(body[i])
      p == IF points = {} THEN Len(body) + 1 ELSE CHOOSE i \in points : TRUE
      int == SubSeq(body, 1, p - 1)
      frac == SubSeq(body, p + 1, Len(body))
      norm == StripZeros(DigitsVal(int \o frac), Len(frac))
  IN  [ok |-> ok,
       f |-> IF ~ok THEN [neg |-> FALSE, mant |-> 0, scale |-> 0]
             ELSE [neg |-> signed /\ s[1] = "-", mant |-> norm.mant, scale |-> norm.scale]]

RECURSIVE TrimRightZeros(_)
TrimRightZeros(s) ==
  IF s # <<>> /\ s[Len(s)] = "0" THEN TrimRightZeros(SubSeq(s, 1, Len(s) - 1)) ELSE s

(* strconv.FormatFloat(f, 'g', -1, 64), the %v form of a float64 *)
FormatFloat(f) ==
  LET all == NatStr(f.mant)
      digs == IF f.mant = 0 THEN <<>> ELSE TrimRightZeros(all)
      nd == Len(digs)
      dp == IF f.mant = 0 THEN 0 ELSE Len(all) - f.scale
      exp == dp - 1
      dig(i) == IF i >= 1 /\ i <= nd THEN digs[i] ELSE "0"
      sign == IF f.neg THEN <<"-">> ELSE <<>>
      aexp == IF exp < 0 THEN 0 - exp ELSE exp
      prec == IF nd > dp THEN nd - dp ELSE 0
  IN  IF exp < -4 \/ exp >= 6
      THEN sign \o <<dig(1)>>
           \o (IF nd > 1 THEN <<".">> \o SubSeq(digs, 2, nd) ELSE <<>>)
           \o <<"e", IF exp < 0 THEN "-" ELSE "+">>
           \o (IF aexp < 10 THEN <<"0">> ELSE <<>>) \o NatStr(aexp)
      ELSE sign
           \o (IF dp > 0 THEN [i \in 1..dp |-> dig(i)] ELSE <<"0">>)
           \o (IF prec > 0 THEN <<".">> \o [i \in 1..prec |-> dig(dp + i)] ELSE <<>>)

(* fmt.Sprintf("%v", x) *)
Sprint(x) ==
  CASE x.t = "str" -> x.s
    [] x.t = "int" -> IF x.n < 0 THEN <<"-">> \o NatStr(0 - x.n) ELSE NatStr(x.n)
    [] x.t = "float" -> FormatFloat(x.f)
    [] x.t = "bool" -> IF x.b THEN TxtTrue ELSE TxtFalse
    [] OTHER -> <<"<", "n", "i", "l", ">">>

Flags == {"#", "0", "+", "-", " "}

DigitSet == {Digits[d] : d \in 1..10}

RECURSIVE SkipWhile(_, _, _)
SkipWhile(s, i, set) ==
  IF i <= Len(s) /\ s[i] \in set THEN SkipWhile(s, i + 1, set) ELSE i

RECURSIVE Sprintf0(_)
(* fmt.Sprintf(format) without operands: a directive, which is "%", flags, *)
(* a width, a precision and a verb, prints as %!verb(MISSING), "%%" prints *)
(* as "%" and a directive without verb as %!(NOVERB).  The texts of the    *)
(* model hold no "[" and no "*".                                           *)
Sprintf0(format) ==
  LET n == Len(format)
      p == SkipWhile(format, 1, {format[i] : i \in 1..n} \ {"%"})
      a == SkipWhile(format, p + 1, Flags)
      b == SkipWhile(format, a, DigitSet)
      c == IF b <= n /\ format[b] = "." THEN SkipWhile(format, b + 1, DigitSet) ELSE b
  IN  IF p > n THEN format
      ELSE SubSeq(format, 1, p - 1)
           \o (IF c > n THEN TxtNoVerb
               ELSE (IF format[c] = "%" THEN <<"%">>
                     ELSE <<"%", "!", format[c]>> \o TxtBangMissing)
                    \o Sprintf0(SubSeq(format, c + 1, n)))

RECURSIVE Join(_, _)
(* strings.Join *)
Join(elems, sep) ==
  IF elems = <<>> THEN <<>>
  ELSE IF Len(elems) = 1 THEN elems[1]
  ELSE elems[1] \o sep \o Join(Tail(elems), sep)

HasPrefix(s, p) == Len(s) >= Len(p) /\ SubSeq(s, 1, Len(p)) = p

(***************************************************************************)
(* The three lookups.  A store is a function from the names that are set   *)
(* to their values (ExpandEnv, ExpandMap), or from names to the pair a     *)
(* lookup function returns (Expand).                                       *)
(***************************************************************************)
LookupEnv(store, key) ==
  IF key \in DOMAIN store
  THEN [value |-> Ptr(store[key]), err |-> NoErr]
  ELSE [value |-> NilPtr, err |-> Err(TxtEnvVariable \o key \o TxtIsMissing)]

LookupMap(store, key) ==
  IF key \in DOMAIN store
  THEN [value |-> Ptr(store[key]), err |-> NoErr]
  ELSE [value |-> NilPtr, err |-> Err(TxtVariable \o key \o TxtIsMissing)]

LookupFn(store, key) ==
  IF key \in DOMAIN store THEN store[key]
  ELSE [value |-> NilPtr, err |-> Err(TxtUnknown)]

values(kind, store, key) ==
  CASE kind = "env" -> LookupEnv(store, key)
    [] kind = "map" -> LookupMap(store, key)
    [] kind = "fn" -> LookupFn(store, key)

(***************************************************************************)
(* The regular expressions.                                                *)
(***************************************************************************)
(* singleRegex: the whole text is "${", one or more characters other than  *)
(* "}", and "}"                                                            *)
singleRegex(s) ==
  /\ Len(s) >= 4
  /\ s[1] = "$" /\ s[2] = "{" /\ s[Len(s)] = "}"
  /\ \A i \in 3..(Len(s) - 1) : s[i] # "}"

(* the end of the match of an unescaped placeholder that starts at i, or 0 *)
PlaceholderEnd(s, i) ==
  IF i + 1 <= Len(s) /\ s[i] = "$" /\ s[i + 1] = "{"
  THEN LET j == SkipWhile(s, i + 2, {s[x] : x \in 1..Len(s)} \ {"}"})
       IN  IF j <= Len(s) /\ j >= i + 3 THEN j ELSE 0
  ELSE 0

(* a detection pattern without the optional backslash *)
detectRegexUnescaped(s, i) == PlaceholderEnd(s, i)

(* detectRegex: an optional backslash and a placeholder; the end of the     *)
(* match that starts at i, or 0                                            *)
detectRegex(s, i) ==
  IF s[i] = "\\" THEN PlaceholderEnd(s, i + 1) ELSE PlaceholderEnd(s, i)

FormatTags == {TxtNumber, TxtBoolean, TxtString}

(* the regular expression of expandValue: "${", a name of one or more      *)
(* characters other than ":", optionally ":" and one of the three format   *)
(* tags, optionally ":-" and a fallback of characters other than a line    *)
(* break, then "}" at the end of the text                                  *)
regex(str) ==
  LET n == Len(str)
      braced == n >= 3 /\ str[1] = "$" /\ str[2] = "{" /\ str[n] = "}"
      body == IF braced THEN SubSeq(str, 3, n - 1) ELSE <<>>
      c == SkipWhile(body, 1, {body[x] : x \in 1..Len(body)} \ {":"})
      name == SubSeq(body, 1, c - 1)
      rest == SubSeq(body, c + 1, Len(body))
      tags == {f \in FormatTags : c <= Len(body) /\ HasPrefix(rest, f)}
      format == IF tags = {} THEN <<>> ELSE CHOOSE f \in tags : TRUE
      after == IF tags = {} THEN SubSeq(body, c, Len(body))
               ELSE SubSeq(rest, Len(format) + 1, Len(rest))
      matched == /\ HasPrefix(after, <<":", "-">>)
                 /\ \A x \in 3..Len(after) : after[x] # "\n"
  IN  [ok |-> braced /\ name # <<>> /\ (after = <<>> \/ matched),
       name |-> name,
       format |-> format,
       hasFallback |-> IF matched THEN after ELSE <<>>,
       fallback |-> IF matched THEN SubSeq(after, 3, Len(after)) ELSE <<>>]

(***************************************************************************)
(* expandValue: the value of one placeholder, its error, and whether the   *)
(* lookup was called.                                                      *)
(***************************************************************************)
formatValue(format, value) ==
  CASE format = <<>> -> [v |-> StrV(value), err |-> NoErr]
    [] format = TxtString -> [v |-> StrV(value), err |-> NoErr]
    [] format = TxtNumber ->
         IF Atoi(value).ok THEN [v |-> IntV(Atoi(value).n), err |-> NoErr]
         ELSE IF ParseFloat(value).ok THEN [v |-> FloatV(ParseFloat(value).f), err |-> NoErr]
         ELSE [v |-> NilV, err |-> Err(value \o TxtNotNumber)]
    [] format = TxtBoolean ->
         CASE value = <<"0">> -> [v |-> BoolV(FALSE), err |-> NoErr]
           [] value = <<"1">> -> [v |-> BoolV(TRUE), err |-> NoErr]
           [] value = TxtFalse -> [v |-> BoolV(FALSE), err |-> NoErr]
           [] value = TxtTrue -> [v |-> BoolV(TRUE), err |-> NoErr]
           [] value = TxtNo -> [v |-> BoolV(FALSE), err |-> NoErr]
           [] value = TxtYes -> [v |-> BoolV(TRUE), err |-> NoErr]
           [] OTHER -> [v |-> NilV, err |-> Err(value \o TxtNotBoolean)]
    [] OTHER -> [v |-> NilV, err |-> Err(TxtFormat \o format \o TxtNotSupported)]

(* the first iteration's test: a fallback clause counts only when its text *)
(* is not empty                                                            *)
hasFallbackNonEmpty(p) == p.fallback # <<>>

(* hasFallback := p[regex.SubexpIndex("hasFallback")] != "" *)
hasFallback(p) == p.hasFallback # <<>>

(* a lookup without value falls back like a lookup that failed *)
valueOrFallbackAbsent(looked, p) ==
  IF ~looked.err.nil \/ (looked.value.nil /\ p.hasFallback # <<>>)
  THEN Ptr(p.fallback) ELSE looked.value

(* the value after the lookup: the fallback when the lookup failed and the *)
(* placeholder has one                                                     *)
valueOrFallback(looked, p) ==
  IF ~looked.err.nil THEN Ptr(p.fallback) ELSE looked.value

(* lines 110 to 157, for a text the regular expression has matched as p *)
expandMatched(str, p, looked) ==
  IF ~looked.err.nil /\ ~hasFallback(p)
  THEN [v |-> NilV, err |-> looked.err, called |-> TRUE]
  ELSE IF valueOrFallback(looked, p).nil
  THEN [v |-> StrV(str), err |-> NoErr, called |-> TRUE]
  ELSE CHOOSE x \in {[v |-> f.v, err |-> f.err, called |-> TRUE] :
                       f \in {formatValue(p.format, valueOrFallback(looked, p).s)}} : TRUE

expandValue(str, kind, store) ==
  CHOOSE x \in
    {IF ~p.ok
     THEN [v |-> NilV, err |-> Err(TxtCouldNotParse \o str), called |-> FALSE]
     ELSE expandMatched(str, p, values(kind, store, p.name)) : p \in {regex(str)}} : TRUE

(***************************************************************************)
(* Expand.  A resolver r is the kind of lookup, the stores its successive  *)
(* calls read (the k-th call reads the k-th store, the last one after      *)
(* that), and the order in which the keys of a mapping are ranged over.    *)
(***************************************************************************)
StoreAt(r, k) == IF k <= Len(r.stores) THEN r.stores[k] ELSE r.stores[Len(r.stores)]

(* the function handed to ReplaceAllStringFunc, on one match; k counts the *)
(* calls of the lookup                                                     *)
replaceFunc(str, r, k) ==
  IF HasPrefix(str, <<"\\">>)
  THEN [out |-> Tail(str), errs |-> <<>>, k |-> k]
  ELSE CHOOSE x \in
         {IF ~e.err.nil
          THEN [out |-> str, errs |-> <<e.err>>, k |-> IF e.called THEN k + 1 ELSE k]
          ELSE [out |-> Sprint(e.v), errs |-> <<>>, k |-> IF e.called THEN k + 1 ELSE k] :
            e \in {expandValue(str, r.kind, StoreAt(r, k))}} : TRUE

(* the text that replaces what starts at position i, and the position      *)
(* after it: the replacement of the match that starts at i, or else the    *)
(* character at i                                                          *)
replaceAt(s, i, r, k) ==
  CHOOSE x \in
    {IF e = 0 THEN [out |-> <<s[i]>>, errs |-> <<>>, k |-> k, next |-> i + 1]
     ELSE CHOOSE y \in {[out |-> f.out, errs |-> f.errs, k |-> f.k, next |-> e + 1] :
                          f \in {replaceFunc(SubSeq(s, i, e), r, k)}} : TRUE :
       e \in {detectRegex(s, i)}} : TRUE

RECURSIVE ReplaceAllUntilError(_, _, _, _)
(* a replacement that gives up at the first placeholder that fails *)
ReplaceAllUntilError(s, i, r, k) ==
  IF i > Len(s) THEN [out |-> <<>>, errs |-> <<>>, k |-> k]
  ELSE CHOOSE x \in UNION
         {{[out |-> one.out \o rest.out, errs |-> one.errs \o rest.errs, k |-> rest.k] :
             rest \in {IF one.errs # <<>>
                       THEN [out |-> SubSeq(s, one.next, Len(s)), errs |-> <<>>, k |-> one.k]
                       ELSE ReplaceAllUntilError(s, one.next, r, one.k)}} :
            one \in {replaceAt(s, i, r, k)}} : TRUE

RECURSIVE ReplaceAllStringFunc(_, _, _, _)
(* detectRegex.ReplaceAllStringFunc on the text from position i on: the    *)
(* leftmost matches, none overlapping another                              *)
ReplaceAllStringFunc(s, i, r, k) ==
  IF i > Len(s) THEN [out |-> <<>>, errs |-> <<>>, k |-> k]
  ELSE CHOOSE x \in UNION
         {{[out |-> one.out \o rest.out, errs |-> one.errs \o rest.errs, k |-> rest.k] :
             rest \in {ReplaceAllStringFunc(s, one.next, r, one.k)}} :
            one \in {replaceAt(s, i, r, k)}} : TRUE

recursionString(current, r, k) ==
  IF singleRegex(current)
  THEN CHOOSE x \in
         {IF ~e.err.nil
          THEN [v |-> StrV(current), errs |-> <<e.err>>, k |-> IF e.called THEN k + 1 ELSE k]
          ELSE [v |-> e.v, errs |-> <<>>, k |-> IF e.called THEN k + 1 ELSE k] :
            e \in {expandValue(current, r.kind, StoreAt(r, k))}} : TRUE
  ELSE CHOOSE x \in {[v |-> StrV(y.out), errs |-> y.errs, k |-> y.k] :
                       y \in {ReplaceAllStringFunc(current, 1, r, k)}} : TRUE

RECURSIVE recursion(_, _, _)
RECURSIVE recursionList(_, _, _)
(* the loops over the elements of a sequence and over the values of a      *)
(* mapping: the expansions of the values in list, in order                 *)
recursionList(list, r, k) ==
  IF list = <<>> THEN [vs |-> <<>>, errs |-> <<>>, k |-> k]
  ELSE CHOOSE x \in UNION
         {{[vs |-> <<one.v>> \o rest.vs, errs |-> one.errs \o rest.errs, k |-> rest.k] :
             rest \in {recursionList(Tail(list), r, one.k)}} :
            one \in {recursion(list[1], r, k)}} : TRUE

(* the keys of mapping m in the order they are ranged over *)
rangeKeys(m, ord) ==
  LET InMap(key) == key \in DOMAIN m
  IN  SelectSeq(ord, InMap)

(* a mapping rebuilt without the keys that hold a placeholder *)
current2MapPlainKeys(m, keys, vs) ==
  [key \in {x \in DOMAIN m : detectRegex(x, 1) = 0} |->
     vs[CHOOSE i \in 1..Len(keys) : keys[i] = key]]

(* current2 after the loop over keys, vs[i] being the expansion of the     *)
(* value at keys[i]                                                        *)
current2Map(m, keys, vs) ==
  [key \in DOMAIN m |-> vs[CHOOSE i \in 1..Len(keys) : keys[i] = key]]

recursion(current, r, k) ==
  CASE current.t = "str" -> recursionString(current.s, r, k)
    [] current.t = "seq" ->
         CHOOSE y \in {[v |-> SeqV(x.vs), errs |-> x.errs, k |-> x.k] :
                         x \in {recursionList(current.e, r, k)}} : TRUE
    [] current.t = "map" ->
         CHOOSE y \in UNION
           {{[v |-> MapV(current2Map(current.m, keys, x.vs)), errs |-> x.errs, k |-> x.k] :
               x \in {recursionList([i \in 1..Len(keys) |-> current.m[keys[i]]], r, k)}} :
              keys \in {rangeKeys(current.m, r.order)}} : TRUE
    [] OTHER -> [v |-> current, errs |-> <<>>, k |-> k]

(* lines 90 to 97: the error of the call, from the errors collected *)
joinErrors(errs) ==
  IF Len(errs) > 0
  THEN Err(Sprintf0(Join([i \in 1..Len(errs) |-> errs[i].msg], TxtSep)))
  ELSE NoErr

Expand(input, r) ==
  CHOOSE y \in {[output |-> x.v, err |-> joinErrors(x.errs), calls |-> x.k - 1] :
                  x \in {recursion(input, r, 1)}} : TRUE

(***************************************************************************)
(* The inputs of the model: names, stores, placeholders, strings, trees.   *)
(***************************************************************************)
NameA == <<"A">>
NameN == <<"N">>
NameF == <<"F">>
NameY == <<"Y">>
NameP == <<"P">>
NameM == <<"M">>
NameI == <<"I">>
NameQ == <<"Q", "%", "d">>

Names == {NameA, NameN, NameF, NameY, NameP, NameM, NameI, NameQ}

(* the process environment at the start, also the map given to ExpandMap:  *)
(* M, I and Q%d are not set                                                *)
Environ ==
  [n \in {NameA, NameN, NameF, NameY, NameP} |->
     CASE n = NameA -> <<"a">>
       [] n = NameN -> <<"4", "2">>
       [] n = NameF -> <<"4", "2", ".", "5">>
       [] n = NameY -> TxtYes
       [] n = NameP -> <<"5", "0", "%">>]

(* the lookup function given to Expand: the values of Environ, no value    *)
(* and no error for I, the error "unknown" for every other name            *)
LookupTable ==
  [n \in {NameA, NameN, NameF, NameY, NameP, NameI} |->
     IF n = NameI THEN [value |-> NilPtr, err |-> NoErr]
     ELSE [value |-> Ptr(Environ[n]), err |-> NoErr]]

StoreOf(kind, env) == IF kind = "fn" THEN LookupTable ELSE env

TxtInteger == <<"i", "n", "t", "e", "g", "e", "r">>

NoFormat == <<>>

Formats == {NoFormat, TxtString, TxtNumber, TxtBoolean}

Tags == Formats \cup {TxtInteger}

NoFallback == [has |-> FALSE, text |-> <<>>]

Fallback(text) == [has |-> TRUE, text |-> text]

(* the text of the placeholder ${name[:tag][:-fallback]} *)
Tok(name, tag, fb) ==
  <<"$", "{">> \o name
  \o (IF tag = NoFormat THEN <<>> ELSE <<":">> \o tag)
  \o (IF fb.has THEN <<":", "-">> \o fb.text ELSE <<>>)
  \o <<"}">>

Fallbacks == {NoFallback, Fallback(<<>>), Fallback(<<"d">>), Fallback(<<"l", "\n", "m">>)}

(* texts given to the coercions through a fallback *)
CoerceTexts ==
  {<<"0">>, <<"1">>, TxtNo, TxtYes, TxtTrue, TxtFalse, <<"T", "R", "U", "E">>,
   <<"Y", "e", "s">>, <<"2">>, <<"-", "1">>, <<"+", "7">>, <<"0", "1">>,
   <<"1", ".", "5", "0">>, <<"-", ".", "5">>, <<"1", ".">>, <<".">>, <<"-">>,
   <<"1", " ">>, <<"%">>, <<"9", "%", "%">>, <<"a", ":", "b">>}

Tokens ==
  {Tok(n, f, fb) : n \in Names, f \in Tags, fb \in Fallbacks}
  \cup {Tok(NameM, f, Fallback(t)) : f \in Formats, t \in CoerceTexts}
  \cup {<<"$", "{", ":", "-", "d", "}">>, <<"$", "{", "M", ":", ":", "-", "d", "}">>,
        <<"$", "{", "A", ":", "}">>, <<"$", "{", "$", "{", "A", "}">>}

Pres == {<<>>, <<"x", " ">>, <<"\\">>, <<"\\", "\\">>, <<"$">>}

Posts == {<<>>, <<" ", "y">>, <<"}">>}

(* one placeholder with text around it *)
TokenStrings == {pre \o tok \o post : pre \in Pres, tok \in Tokens, post \in Posts}

SomeTokens ==
  {Tok(NameA, NoFormat, NoFallback), Tok(NameM, NoFormat, NoFallback),
   Tok(NameN, TxtNumber, NoFallback), Tok(NameP, TxtNumber, NoFallback),
   Tok(NameQ, NoFormat, NoFallback), Tok(NameM, NoFormat, Fallback(<<"d">>)),
   Tok(NameI, NoFormat, NoFallback), Tok(NameA, TxtInteger, NoFallback),
   <<"\\">> \o Tok(NameM, NoFormat, NoFallback)}

Seps == {<<>>, <<" ">>}

RECURSIVE Joined(_)
(* the texts of n placeholders of SomeTokens, with or without a blank      *)
(* between two of them                                                     *)
Joined(n) ==
  IF n = 1 THEN SomeTokens
  ELSE {s \o sep \o tok : s \in Joined(n - 1), sep \in Seps, tok \in SomeTokens}

PlainStrings == {<<>>, <<"p", "l", "a", "i", "n">>, <<"$", "{", "}">>, <<"\\", "$", " ", "{", "}">>}

Strings == TokenStrings \cup UNION {Joined(n) : n \in 2..MaxTokens} \cup PlainStrings

Scalars ==
  {NilV, IntV(1), BoolV(TRUE), FloatV([neg |-> FALSE, mant |-> 12, scale |-> 1])}

Leaves ==
  Scalars \cup
  {StrV(s) : s \in {Tok(NameA, NoFormat, NoFallback), Tok(NameM, NoFormat, NoFallback),
                    Tok(NameN, TxtNumber, NoFallback), Tok(NameP, TxtBoolean, NoFallback),
                    <<"x", " ">> \o Tok(NameF, TxtNumber, NoFallback)
                      \o Tok(NameQ, NoFormat, NoFallback)}}

KeyK == <<"k">>

KeyTok == Tok(NameA, NoFormat, NoFallback)

Keys == {KeyK, KeyTok}

Orders == {<<KeyK, KeyTok>>, <<KeyTok, KeyK>>}

SequenceValues == UNION {[1..n -> Leaves] : n \in 0..MaxElems}

Mappings == UNION {[ks -> Leaves] : ks \in SUBSET Keys}

Nested ==
  {SeqV(<<l, MapV([key \in {KeyK} |-> SeqV(<<m>>)])>>) : l \in Leaves, m \in Leaves}

Inputs ==
  {StrV(s) : s \in Strings} \cup Scalars
  \cup {SeqV(e) : e \in SequenceValues} \cup {MapV(m) : m \in Mappings} \cup Nested

(* strings and sequences with several placeholders, for the calls of       *)
(* ExpandEnv that run while another thread writes the environment          *)
EnvInputs ==
  {StrV(s) : s \in Joined(2)}
  \cup {SeqV(e) : e \in [1..2 -> {StrV(Tok(NameA, NoFormat, NoFallback)),
                                  StrV(Tok(NameM, NoFormat, NoFallback)),
                                  StrV(<<"x">> \o Tok(NameA, NoFormat, Fallback(<<"d">>)))}]}

(***************************************************************************)
(* The state: one call of ExpandEnv, ExpandMap or Expand on input.         *)
(***************************************************************************)
VARIABLES input, env, pc, kind, order, seen, env0, writes, output, error

vars == <<input, env, pc, kind, order, seen, env0, writes, output, error>>

Resolver(k, stores, ord) == [kind |-> k, stores |-> stores, order |-> ord]

Init ==
  /\ input \in Inputs
  /\ env = Environ
  /\ pc = "ready"
  /\ kind = "none"
  /\ order \in Orders
  /\ seen = <<>>
  /\ env0 = Environ
  /\ writes = 0
  /\ output = NilV
  /\ error = NoErr

(* the return of a whole call, nothing else running *)
Return(k) ==
  /\ \E x \in {Expand(input, Resolver(k, <<StoreOf(k, env)>>, order))} :
       /\ output' = x.output
       /\ error' = x.err
       /\ seen' = [i \in 1..x.calls |-> env]
  /\ pc' = "done"
  /\ UNCHANGED <<input, env, order, env0, writes>>

ExpandEnv ==
  /\ pc = "ready"
  /\ kind' = "env"
  /\ Return("env")

ExpandMap ==
  /\ pc = "ready"
  /\ kind' = "map"
  /\ Return("map")

ExpandFn ==
  /\ pc = "ready"
  /\ kind' = "fn"
  /\ Return("fn")

Next == ExpandEnv \/ ExpandMap \/ ExpandFn

Spec == Init /\ [][Next]_vars

(***************************************************************************)
(* ExpandEnv lookup by lookup, with a second thread that calls os.Setenv   *)
(* and os.Unsetenv.                                                        *)
(***************************************************************************)
InitEnv ==
  /\ input \in EnvInputs
  /\ env = Environ
  /\ pc = "ready"
  /\ kind = "none"
  /\ order \in Orders
  /\ seen = <<>>
  /\ env0 = Environ
  /\ writes = 0
  /\ output = NilV
  /\ error = NoErr

(* the number of calls of the lookup: one for each placeholder that is not *)
(* escaped and that the regular expression of expandValue matches          *)
NumCalls == Expand(input, Resolver("env", <<env>>, order)).calls

BeginExpandEnv ==
  /\ pc = "ready"
  /\ pc' = "running"
  /\ kind' = "env"
  /\ env0' = env
  /\ UNCHANGED <<input, env, order, seen, writes, output, error>>

(* os.LookupEnv in the next call of the lookup reads the environment *)
LookupEnvStep ==
  /\ pc = "running"
  /\ Len(seen) < NumCalls
  /\ seen' = Append(seen, env)
  /\ UNCHANGED <<input, env, pc, kind, order, env0, writes, output, error>>

ReturnExpandEnv ==
  /\ pc = "running"
  /\ Len(seen) = NumCalls
  /\ \E x \in {Expand(input, Resolver("env", IF seen = <<>> THEN <<env>> ELSE seen, order))} :
       /\ output' = x.output
       /\ error' = x.err
  /\ pc' = "done"
  /\ UNCHANGED <<input, env, kind, order, seen, env0, writes>>

EnvValues == {<<"b">>, <<"7">>}

Setenv ==
  /\ pc # "done"
  /\ writes < MaxEnvWrites
  /\ \E n \in {NameA, NameM}, v \in EnvValues :
       env' = [x \in DOMAIN env \cup {n} |-> IF x = n THEN v ELSE env[x]]
  /\ writes' = writes + 1
  /\ UNCHANGED <<input, pc, kind, order, seen, env0, output, error>>

Unsetenv ==
  /\ pc # "done"
  /\ writes < MaxEnvWrites
  /\ \E n \in {NameA, NameM} :
       env' = [x \in DOMAIN env \ {n} |-> env[x]]
  /\ writes' = writes + 1
  /\ UNCHANGED <<input, pc, kind, order, seen, env0, output, error>>

NextEnv == BeginExpandEnv \/ LookupEnvStep \/ ReturnExpandEnv \/ Setenv \/ Unsetenv

SpecEnv == InitEnv /\ [][NextEnv]_vars

(***************************************************************************)
(* The first iteration, expandenv.go: ExpandEnv reads the environment      *)
(* itself; its results carry the number of lookups made.                   *)
(***************************************************************************)
(* detectRegex of the first iteration: the start of the text or one        *)
(* character other than a backslash, and a placeholder; the end of the     *)
(* match that starts at i, or 0                                            *)
detectRegexFirst(s, i) ==
  IF i = 1 /\ PlaceholderEnd(s, i) # 0 THEN PlaceholderEnd(s, i)
  ELSE IF s[i] # "\\" THEN PlaceholderEnd(s, i + 1)
  ELSE 0

(* the switch on format of expandEnvValue *)
formatEnvValue(format, value) ==
  CASE format = <<>> -> [v |-> StrV(value), err |-> NoErr]
    [] format = TxtString -> [v |-> StrV(value), err |-> NoErr]
    [] format = TxtNumber ->
         IF Atoi(value).ok THEN [v |-> IntV(Atoi(value).n), err |-> NoErr]
         ELSE [v |-> NilV, err |-> Err(value \o TxtNotNumber)]
    [] format = TxtBoolean ->
         CASE value = <<"0">> -> [v |-> BoolV(FALSE), err |-> NoErr]
           [] value = <<"1">> -> [v |-> BoolV(TRUE), err |-> NoErr]
           [] value = TxtFalse -> [v |-> BoolV(FALSE), err |-> NoErr]
           [] value = TxtTrue -> [v |-> BoolV(TRUE), err |-> NoErr]
           [] value = TxtNo -> [v |-> BoolV(FALSE), err |-> NoErr]
           [] value = TxtYes -> [v |-> BoolV(TRUE), err |-> NoErr]
           [] OTHER -> [v |-> NilV, err |-> Err(value \o TxtNotBoolean)]
    [] OTHER -> [v |-> NilV, err |-> Err(TxtFormat \o format \o TxtNotSupported)]

(* expandEnvValue: the regular expression is the one of the final version  *)
(* up to its groups; a missing name takes the fallback when the text of    *)
(* the fallback is not empty                                               *)
expandEnvValue(str, store) ==
  CHOOSE x \in
    {IF ~p.ok
     THEN [v |-> NilV, err |-> Err(TxtCouldNotParse \o str), calls |-> 0]
     ELSE IF p.name \notin DOMAIN store /\ p.fallback = <<>>
     THEN [v |-> NilV, err |-> Err(TxtEnvVariable \o p.name \o TxtIsMissing), calls |-> 1]
     ELSE CHOOSE y \in
            {[v |-> f.v, err |-> f.err, calls |-> 1] :
               f \in {formatEnvValue(p.format, IF p.name \in DOMAIN store
                                               THEN store[p.name] ELSE p.fallback)}} : TRUE :
       p \in {regex(str)}} : TRUE

(* strings.IndexAny(str, "$"), counted from 1; str holds a "$" *)
IndexAny(str) == CHOOSE i \in 1..Len(str) : str[i] = "$" /\ \A j \in 1..(i - 1) : str[j] # "$"

(* the function handed to ReplaceAllStringFunc, on one match *)
replaceFuncFirst(str, store) ==
  CHOOSE x \in
    {IF ~e.err.nil
     THEN [out |-> str, errs |-> <<e.err>>, calls |-> e.calls]
     ELSE [out |-> SubSeq(str, 1, IndexAny(str) - 1) \o Sprint(e.v), errs |-> <<>>,
           calls |-> e.calls] :
       e \in {expandEnvValue(SubSeq(str, IndexAny(str), Len(str)), store)}} : TRUE

(* the text that replaces what starts at position i, and the position      *)
(* after it                                                                *)
replaceAtFirst(s, i, store) ==
  CHOOSE x \in
    {IF e = 0 THEN [out |-> <<s[i]>>, errs |-> <<>>, calls |-> 0, next |-> i + 1]
     ELSE CHOOSE y \in {[out |-> f.out, errs |-> f.errs, calls |-> f.calls, next |-> e + 1] :
                          f \in {replaceFuncFirst(SubSeq(s, i, e), store)}} : TRUE :
       e \in {detectRegexFirst(s, i)}} : TRUE

RECURSIVE ReplaceAllStringFuncFirst(_, _, _)
(* detectRegex.ReplaceAllStringFunc on the text from position i on *)
ReplaceAllStringFuncFirst(s, i, store) ==
  IF i > Len(s) THEN [out |-> <<>>, errs |-> <<>>, calls |-> 0]
  ELSE CHOOSE x \in UNION
         {{[out |-> one.out \o rest.out, errs |-> one.errs \o rest.errs,
            calls |-> one.calls + rest.calls] :
             rest \in {ReplaceAllStringFuncFirst(s, one.next, store)}} :
            one \in {replaceAtFirst(s, i, store)}} : TRUE

recursionStringFirst(current, store) ==
  IF singleRegex(current)
  THEN CHOOSE x \in
         {IF ~e.err.nil
          THEN [v |-> StrV(current), errs |-> <<e.err>>, calls |-> e.calls]
          ELSE [v |-> e.v, errs |-> <<>>, calls |-> e.calls] :
            e \in {expandEnvValue(current, store)}} : TRUE
  ELSE CHOOSE x \in {[v |-> StrV(y.out), errs |-> y.errs, calls |-> y.calls] :
                       y \in {ReplaceAllStringFuncFirst(current, 1, store)}} : TRUE

RECURSIVE recursionFirst(_, _, _)
RECURSIVE recursionListFirst(_, _, _)
(* the loops over the elements of a sequence and the values of a mapping *)
recursionListFirst(list, store, ord) ==
  IF list = <<>> THEN [vs |-> <<>>, errs |-> <<>>, calls |-> 0]
  ELSE CHOOSE x \in UNION
         {{[vs |-> <<one.v>> \o rest.vs, errs |-> one.errs \o rest.errs,
            calls |-> one.calls + rest.calls] :
             rest \in {recursionListFirst(Tail(list), store, ord)}} :
            one \in {recursionFirst(list[1], store, ord)}} : TRUE

recursionFirst(current, store, ord) ==
  CASE current.t = "str" -> recursionStringFirst(current.s, store)
    [] current.t = "seq" ->
         CHOOSE y \in {[v |-> SeqV(x.vs), errs |-> x.errs, calls |-> x.calls] :
                         x \in {recursionListFirst(current.e, store, ord)}} : TRUE
    [] current.t = "map" ->
         CHOOSE y \in UNION
           {{[v |-> MapV(current2Map(current.m, keys, x.vs)), errs |-> x.errs,
              calls |-> x.calls] :
               x \in {recursionListFirst([i \in 1..Len(keys) |-> current.m[keys[i]]], store, ord)}} :
              keys \in {rangeKeys(current.m, ord)}} : TRUE
    [] OTHER -> [v |-> current, errs |-> <<>>, calls |-> 0]

(* ExpandEnv of the first iteration on tree, the environment being store  *)
ExpandEnvFirst(tree, store, ord) ==
  CHOOSE y \in {[output |-> x.v, err |-> joinErrors(x.errs), calls |-> x.calls] :
                  x \in {recursionFirst(tree, store, ord)}} : TRUE

(* one call of ExpandEnv of the first iteration, after the writes to the   *)
(* environment that Setenv and Unsetenv make before it                     *)
CallExpandEnvFirst ==
  /\ pc = "ready"
  /\ kind' = "env"
  /\ env0' = env
  /\ \E x \in {ExpandEnvFirst(input, env, order)} :
       /\ output' = x.output
       /\ error' = x.err
       /\ seen' = [i \in 1..x.calls |-> env]
  /\ pc' = "done"
  /\ UNCHANGED <<input, env, order, writes>>

NextFirst == CallExpandEnvFirst \/ Setenv \/ Unsetenv

SpecFirst == Init /\ [][NextFirst]_vars

(***************************************************************************)
(* Properties.                                                             *)
(***************************************************************************)
Done == pc = "done"

(* the text before a placeholder ends with a backslash *)
Escaping(pre) == pre # <<>> /\ pre[Len(pre)] = "\\"

(* what the lookup of the call in progress returns for a name *)
Looked(n) == values(kind, StoreOf(kind, env), n)

(* the message a missing name is documented to give *)
MissingMessage(k, n) ==
  CASE k = "map" -> TxtVariable \o n \o TxtIsMissing
    [] k = "env" -> TxtEnvVariable \o n \o TxtIsMissing
    [] OTHER -> TxtUnknown

HasSuffix(s, p) == Len(s) >= Len(p) /\ SubSeq(s, Len(s) - Len(p) + 1, Len(s)) = p

(* the input is a string that starts with pre and a placeholder of name n  *)
(* and ends with a closing brace and post                                  *)
Around(pre, n, post) ==
  /\ input.t = "str"
  /\ HasPrefix(input.s, pre \o <<"$", "{">> \o n)
  /\ HasSuffix(input.s, <<"}">> \o post)

(* C1: a placeholder without a fallback clause whose lookup returns an     *)
(* error stays unchanged at its position in the output, and the call       *)
(* returns an error whose message is the message of the lookup: "variable  *)
(* NAME is missing" through ExpandMap, "environment variable NAME is       *)
(* missing" through ExpandEnv, the text of the lookup function through     *)
(* Expand.                                                                 *)
C1_MissingKeepsTextAndMessage ==
  Done =>
    \A pre \in Pres, post \in Posts, n \in Names :
      (Around(pre, n, post) /\ ~Escaping(pre) /\ ~Looked(n).err.nil) =>
        \A f \in Formats :
          input = StrV(pre \o Tok(n, f, NoFallback) \o post)
          => /\ output = input
             /\ ~error.nil
             /\ error.msg = MissingMessage(kind, n)

FallbackTexts == {fb.text : fb \in Fallbacks \ {NoFallback}} \cup CoerceTexts

EscapedM == <<"\\">> \o Tok(NameM, NoFormat, NoFallback)

(* C3: a placeholder right after a backslash is emitted with that one      *)
(* backslash removed and its text verbatim, without a call of the lookup   *)
(* and without an error, whatever the lookup and the text of the           *)
(* placeholder; of two backslashes the first one stays.                    *)
C3_EscapedVerbatim ==
  (Done /\ input.t = "str") =>
    /\ \A pre \in Pres, post \in Posts :
         (Escaping(pre) /\ HasPrefix(input.s, pre \o <<"$", "{">>)) =>
           \A tok \in Tokens :
             input = StrV(pre \o tok \o post)
             => /\ output = StrV(SubSeq(pre, 1, Len(pre) - 1) \o tok \o post)
                /\ error.nil
                /\ seen = <<>>
    /\ \A sep \in Seps :
         HasSuffix(input.s, sep \o EscapedM) =>
           \A a \in SomeTokens :
             input = StrV(a \o sep \o EscapedM)
             => /\ output.t = "str"
                /\ HasSuffix(output.s, sep \o Tail(EscapedM))
                /\ Len(seen) <= 1
                /\ (a = EscapedM => error.nil /\ seen = <<>>)

(* C3 witness: two backslashes before ${M}, M missing, gave one backslash  *)
(* before ${M}                                                             *)
C3_Witness ==
  /\ Done
  /\ kind = "env"
  /\ input = StrV(<<"\\">> \o EscapedM)
  /\ output = StrV(EscapedM)
  /\ error.nil
  /\ seen = <<>>

AllFallbacks == Fallbacks \cup {Fallback(t) : t \in CoerceTexts}

(* the text a placeholder of name n and fallback fb resolves to *)
Resolved(n, fb) == IF Looked(n).err.nil THEN Looked(n).value.s ELSE fb.text

(* the lookup finds n, or it reports an error and there is a fallback *)
Resolves(n, fb) ==
  \/ Looked(n).err.nil /\ ~Looked(n).value.nil
  \/ ~Looked(n).err.nil /\ fb.has

Dec(neg, mant, scale) == FloatV([neg |-> neg, mant |-> mant, scale |-> scale])

(* the numbers the texts of the model stand for *)
NumberOf ==
  [t \in {<<"0">>, <<"1">>, <<"2">>, <<"-", "1">>, <<"+", "7">>, <<"0", "1">>,
          <<"4", "2">>, <<"4", "2", ".", "5">>, <<"1", ".", "5", "0">>,
          <<"-", ".", "5">>, <<"1", ".">>} |->
     CASE t = <<"0">> -> IntV(0)
       [] t = <<"1">> -> IntV(1)
       [] t = <<"2">> -> IntV(2)
       [] t = <<"-", "1">> -> IntV(-1)
       [] t = <<"+", "7">> -> IntV(7)
       [] t = <<"0", "1">> -> IntV(1)
       [] t = <<"4", "2">> -> IntV(42)
       [] t = <<"4", "2", ".", "5">> -> Dec(FALSE, 425, 1)
       [] t = <<"1", ".", "5", "0">> -> Dec(FALSE, 15, 1)
       [] t = <<"-", ".", "5">> -> Dec(TRUE, 5, 1)
       [] t = <<"1", ".">> -> Dec(FALSE, 1, 0)]

(* what the format tag f is documented to make of the text t, for the      *)
(* input in and the result out, err                                        *)
Coerced(f, t, in, out, err) ==
  CASE f = TxtNumber ->
         IF t \in DOMAIN NumberOf THEN out = NumberOf[t] /\ err.nil
         ELSE out = in /\ err = Err(t \o TxtNotNumber)
    [] f = TxtBoolean ->
         IF t \in {<<"0">>, TxtNo, TxtFalse} THEN out = BoolV(FALSE) /\ err.nil
         ELSE IF t \in {<<"1">>, TxtYes, TxtTrue} THEN out = BoolV(TRUE) /\ err.nil
         ELSE out = in /\ err = Err(t \o TxtNotBoolean)
    [] OTHER -> out = StrV(t) /\ err.nil

(* C4: a string that is exactly one placeholder whose text resolves or     *)
(* falls back to t gives t coerced by the format tag: the string t without *)
(* tag or with string; with number an integer, else a floating-point       *)
(* value, else the error "t is not a valid number" and the placeholder     *)
(* text; with boolean false for 0, no, false, true for 1, yes, true, else  *)
(* the error "t is not a valid boolean" and the placeholder text.          *)
C4_WholeStringCoercion ==
  (Done /\ input.t = "str" /\ Len(seen) = 1) =>
    \A n \in Names :
      HasPrefix(input.s, <<"$", "{">> \o n) =>
        \A f \in Formats, fb \in AllFallbacks :
          (input = StrV(Tok(n, f, fb)) /\ Resolves(n, fb))
          => Coerced(f, Resolved(n, fb), input, output, error)

(* the resolver of the call in progress, nothing else running *)
Own == Resolver(kind, <<StoreOf(kind, env)>>, order)

(* one match of the detection pattern, replaced on its own *)
Piece(tok) == replaceFunc(tok, Own, 1)

JoinedError(errs) ==
  IF errs = <<>> THEN NoErr
  ELSE Err(Join([i \in 1..Len(errs) |-> errs[i].msg], TxtSep))

RECURSIVE ErrsOf(_)
(* the errors of the elements of a sequence, each expanded on its own, in  *)
(* the order of the indexes                                                *)
ErrsOf(list) ==
  IF list = <<>> THEN <<>>
  ELSE recursion(list[1], Own, 1).errs \o ErrsOf(Tail(list))

(* C5: when placeholders fail, the call returns one error whose message is *)
(* the messages of the failures joined by ", " in the order of the         *)
(* traversal, left to right in a string and by index in a sequence; the    *)
(* error is nil exactly when no placeholder failed.                        *)
C5_JoinedMessages ==
  Done =>
    /\ input.t = "str" =>
         \A a \in SomeTokens :
           HasPrefix(input.s, a) =>
             \A sep \in Seps, b \in SomeTokens :
               input = StrV(a \o sep \o b)
               => error = JoinedError(Piece(a).errs \o Piece(b).errs)
    /\ input.t = "seq" => error = JoinedError(ErrsOf(input.e))

(* the text each placeholder of SomeTokens is to be replaced with inside a *)
(* string, the environment being Environ: its own text when it fails or   *)
(* is left alone                                                           *)
TextOf(tok) ==
  CASE tok = Tok(NameA, NoFormat, NoFallback) -> <<"a">>
    [] tok = Tok(NameN, TxtNumber, NoFallback) -> <<"4", "2">>
    [] tok = Tok(NameM, NoFormat, Fallback(<<"d">>)) -> <<"d">>
    [] tok = EscapedM -> Tok(NameM, NoFormat, NoFallback)
    [] OTHER -> tok

(* C6: a failure on one placeholder does not stop the pass: in a string    *)
(* each placeholder is replaced at its own position by the text of its     *)
(* value and a failing one is left as it is; the other elements of a       *)
(* sequence and the other entries of a mapping are expanded also when the  *)
(* call returns an error.                                                  *)
C6_FailuresDoNotStop ==
  Done =>
    /\ input.t = "str" =>
         \A a \in SomeTokens :
           HasPrefix(input.s, a) =>
             \A sep \in Seps, b \in SomeTokens :
               input = StrV(a \o sep \o b)
               => output = StrV(TextOf(a) \o sep \o TextOf(b))
    /\ (input.t = "seq" /\ ~error.nil) =>
         /\ output.t = "seq"
         /\ \A i \in 1..Len(input.e) : output.e[i] = Expand(input.e[i], Own).output
    /\ (input.t = "map" /\ ~error.nil) =>
         /\ output.t = "map"
         /\ \A key \in DOMAIN input.m : output.m[key] = Expand(input.m[key], Own).output

(* C6 witness: of "${M} ${A}" the first placeholder failed and the second  *)
(* one was replaced                                                        *)
C6_Witness ==
  /\ Done
  /\ input = StrV(Tok(NameM, NoFormat, NoFallback) \o <<" ">> \o Tok(NameA, NoFormat, NoFallback))
  /\ output = StrV(Tok(NameM, NoFormat, NoFallback) \o <<" ", "a">>)
  /\ ~error.nil

(* C7: the output has the shape of the input: a sequence gives a sequence  *)
(* of the same length whose i-th element is the expansion of the i-th      *)
(* element, a mapping gives a mapping with the same keys whose value at a  *)
(* key is the expansion of the value at that key, keys are not expanded,   *)
(* and other scalars and null come back unchanged without an error.        *)
C7_SameShape ==
  Done =>
    /\ input.t = "seq" =>
         /\ output.t = "seq"
         /\ Len(output.e) = Len(input.e)
         /\ \A i \in 1..Len(input.e) : output.e[i] = Expand(input.e[i], Own).output
    /\ input.t = "map" =>
         /\ output.t = "map"
         /\ DOMAIN output.m = DOMAIN input.m
         /\ \A key \in DOMAIN input.m : output.m[key] = Expand(input.m[key], Own).output
    /\ input.t \notin {"str", "seq", "map"} => (output = input /\ error.nil)

(* C7 witness: a mapping whose two keys are "k" and "${A}", with the       *)
(* values 1 and "${A}", came back with the same keys and the values 1 and  *)
(* "a"                                                                     *)
C7_Witness ==
  /\ Done
  /\ input = MapV([key \in Keys |-> IF key = KeyK THEN IntV(1) ELSE StrV(KeyTok)])
  /\ output = MapV([key \in Keys |-> IF key = KeyK THEN IntV(1) ELSE StrV(<<"a">>)])
  /\ error.nil

C9_UnsupportedFormat ==
  Done =>
    \A pre \in Pres, post \in Posts, n \in Names :
      (Around(pre, n, post) /\ ~Escaping(pre)) =>
        (input = StrV(pre \o Tok(n, TxtInteger, NoFallback) \o post)
        => /\ output = input
           /\ error = Err(TxtFormat \o TxtInteger \o TxtNotSupported))

(* C10: every lookup of one call of ExpandEnv sees the environment as it   *)
(* was when the call started, whatever another thread sets or unsets       *)
(* while the call runs.                                                    *)
C10_EnvironmentSnapshot ==
  Done =>
    /\ output = Expand(input, Resolver("env", <<env0>>, order)).output
    /\ error = Expand(input, Resolver("env", <<env0>>, order)).err

(* C11: every placeholder ${NAME:-F}, with or without one of the three    *)
(* format tags before ":-", whose F is any text without "}", a line break  *)
(* included, is parsed with the fallback F, and is not rejected with the   *)
(* error "could not parse".                                                *)
C11_FallbackAnyText ==
  Done =>
    \A pre \in Pres, post \in Posts, n \in Names :
      (Around(pre, n, post) /\ ~Escaping(pre)) =>
        \A f \in Formats, t \in FallbackTexts :
          input = StrV(pre \o Tok(n, f, Fallback(t)) \o post)
          => /\ regex(Tok(n, f, Fallback(t))).ok
             /\ regex(Tok(n, f, Fallback(t))).fallback = t
             /\ (error.nil \/ ~HasPrefix(error.msg, TxtCouldNotParse))

(* placeholders without a backslash before them *)
FirstTokens == SomeTokens \ {EscapedM}

(* the text a placeholder resolves to in the first iteration, and its own  *)
(* text when it fails                                                      *)
FirstText(tok) ==
  IF expandEnvValue(tok, env).err.nil THEN Sprint(expandEnvValue(tok, env).v) ELSE tok

(* C12: ExpandEnv of the first iteration finds and resolves every          *)
(* unescaped placeholder of a string that is not a single placeholder,     *)
(* also one that follows the closing brace of another placeholder; none    *)
(* is left unexpanded without an error.                                    *)
C12_FirstFindsEvery ==
  (Done /\ input.t = "str") =>
    \A a \in FirstTokens :
      HasPrefix(input.s, a) =>
        \A sep \in Seps, b \in FirstTokens :
          input = StrV(a \o sep \o b)
          => /\ output = StrV(FirstText(a) \o sep \o FirstText(b))
             /\ (FirstText(a) = a \/ FirstText(b) = b) => ~error.nil

====
